---- MODULE Spec2Model ----
(***************************************************************************)
(* YTQuiz backend: URL resolution (youtube_utils.py), question generation  *)
(* (quiz_generator.py) and the generate/submit handlers with the in-memory *)
(* quiz store (main.py).                                                   *)
(*                                                                         *)
(* Strings that the code inspects character by character (URLs, video ids) *)
(* are sequences of one-character strings.  Python's None/value results    *)
(* are option records [some, val].                                         *)
(***************************************************************************)
EXTENDS Integers, Sequences, FiniteSets, TLC

VARIABLES
    YOUTUBE_API_KEY,  \* youtube_utils.YOUTUBE_API_KEY is set (TRUE) or missing
    QUIZZES,          \* main.QUIZZES: quizId -> list of full question dicts
    issued,           \* quiz ids uuid4() has handed out so far
    req,              \* per worker thread: the request it is handling
    content,          \* raw model output of a generation run
    content2,         \* raw model output of a second generation run
    num_questions,    \* num_questions argument of the generation run(s)
    gen_out,          \* outcome of generate_questions_from_text(content, ..)
    pub_out,          \* public question list of the run on content
    pub_out2,         \* public question list of the run on content2
    url_in,           \* argument of a URL resolver call
    url_out           \* result of extract_video_id / extract_playlist_id

vars == << YOUTUBE_API_KEY, QUIZZES, issued, req, content, content2,
           num_questions, gen_out, pub_out, pub_out2, url_in, url_out >>

serverVars == << YOUTUBE_API_KEY, QUIZZES, issued, req >>
genVars == << content, content2, num_questions, gen_out, pub_out, pub_out2 >>
urlVars == << url_in, url_out >>

-----------------------------------------------------------------------------
(* Bounds of the model *)

MaxPieces == 4         \* URL inputs are concatenations of at most this many pieces
MaxItems == 3          \* elements in the model's "questions" array
MaxPairItems == 2      \* the same, for the runs compared pairwise
MaxNumQuestions == 2   \* largest num_questions passed to a generation run
MaxQuizzes == 2        \* quiz ids available to uuid4()
MaxPlaylistItems == 2  \* items the platform reports for a playlist
MaxAnswers == 2        \* answers in one submit request

(* Program constants *)

IdLen == 11            \* {11} in the video id patterns
OptionCount == 4       \* len(q["options"]) == 4, correct_index < 4
QuestionCap == 20      \* global cap on total_questions

-----------------------------------------------------------------------------
(* Python values *)

None == [some |-> FALSE, val |-> << >>]
Some(v) == [some |-> TRUE, val |-> v]

Min(a, b) == IF a <= b THEN a ELSE b
Max(a, b) == IF a >= b THEN a ELSE b

-----------------------------------------------------------------------------
(* youtube_utils.py: URL resolver *)

Lower == {"a","b","c","d","e","f","g","h","i","j","k","l","m",
          "n","o","p","q","r","s","t","u","v","w","x","y","z"}
Upper == {"A","B","C","D","E","F","G","H","I","J","K","L","M",
          "N","O","P","Q","R","S","T","U","V","W","X","Y","Z"}
Digit == {"0","1","2","3","4","5","6","7","8","9"}

\* the character class [a-zA-Z0-9_-]
IdChars == Lower \cup Upper \cup Digit \cup {"_", "-"}

\* characters str.strip() removes
Whitespace == {" ", "\t", "\n", "\r"}

RECURSIVE lstrip(_)
lstrip(s) ==
    IF s # << >> /\ Head(s) \in Whitespace THEN lstrip(Tail(s)) ELSE s

RECURSIVE rstrip(_)
rstrip(s) ==
    IF s # << >> /\ s[Len(s)] \in Whitespace
    THEN rstrip(SubSeq(s, 1, Len(s) - 1))
    ELSE s

strip(s) == rstrip(lstrip(s))

\* the literal lit occurs in s at position i
LiteralAt(lit, s, i) ==
    /\ i >= 1
    /\ i + Len(lit) - 1 <= Len(s)
    /\ \A k \in 1..Len(lit) : s[i + k - 1] = lit[k]

\* lit([a-zA-Z0-9_-]{11}) matches s at position i
IdPatternAt(lit, s, i) ==
    /\ LiteralAt(lit, s, i)
    /\ i + Len(lit) + IdLen - 1 <= Len(s)
    /\ \A k \in 1..IdLen : s[i + Len(lit) + k - 1] \in IdChars

\* re.search(lit([a-zA-Z0-9_-]{11}), s): group(1) of the leftmost match
RECURSIVE re_search_from(_, _, _)
re_search_from(lit, s, i) ==
    IF i > Len(s) THEN None
    ELSE IF IdPatternAt(lit, s, i)
         THEN Some(SubSeq(s, i + Len(lit), i + Len(lit) + IdLen - 1))
         ELSE re_search_from(lit, s, i + 1)

re_search_id(lit, s) == re_search_from(lit, s, 1)

\* re.fullmatch([a-zA-Z0-9_-]{11}, s)
re_fullmatch_id(s) == Len(s) = IdLen /\ \A k \in 1..IdLen : s[k] \in IdChars

LitV == << "v", "=" >>
LitYoutuBe == << "y", "o", "u", "t", "u", ".", "b", "e", "/" >>
LitShorts == << "s", "h", "o", "r", "t", "s", "/" >>
LitList == << "l", "i", "s", "t", "=" >>

\* the spec's priority order: /shorts/ before the short domain
extract_video_id_shorts_first(url_or_id) ==
    LET s == strip(url_or_id) IN
    IF re_fullmatch_id(s) THEN Some(s)
    ELSE IF re_search_id(LitV, s).some THEN re_search_id(LitV, s)
    ELSE IF re_search_id(LitShorts, s).some THEN re_search_id(LitShorts, s)
    ELSE IF re_search_id(LitYoutuBe, s).some THEN re_search_id(LitYoutuBe, s)
    ELSE None

extract_video_id(url_or_id) ==
    LET s == strip(url_or_id) IN
    IF re_fullmatch_id(s) THEN Some(s)
    ELSE IF re_search_id(LitV, s).some THEN re_search_id(LitV, s)
    ELSE IF re_search_id(LitYoutuBe, s).some THEN re_search_id(LitYoutuBe, s)
    ELSE IF re_search_id(LitShorts, s).some THEN re_search_id(LitShorts, s)
    ELSE None

\* longest run of id characters of s starting at position i (greedy +)
RECURSIVE IdRun(_, _)
IdRun(s, i) ==
    IF i <= Len(s) /\ s[i] \in IdChars THEN << s[i] >> \o IdRun(s, i + 1)
    ELSE << >>

\* [?&]list=([a-zA-Z0-9_-]+) matches s at position i
ListPatternAt(s, i) ==
    /\ i >= 1
    /\ i <= Len(s)
    /\ s[i] \in {"?", "&"}
    /\ LiteralAt(LitList, s, i + 1)
    /\ IdRun(s, i + 1 + Len(LitList)) # << >>

RECURSIVE list_search_from(_, _)
list_search_from(s, i) ==
    IF i > Len(s) THEN None
    ELSE IF ListPatternAt(s, i) THEN Some(IdRun(s, i + 1 + Len(LitList)))
         ELSE list_search_from(s, i + 1)

extract_playlist_id(playlist_url) == list_search_from(playlist_url, 1)

-----------------------------------------------------------------------------
(* URL inputs *)

IdA == [k \in 1..IdLen |-> "A"]
IdB == << "b", "-", "_", "0", "Z", "9", "x", "y", "q", "1", "B" >>

Pieces ==
    { LitV, LitYoutuBe, LitShorts, IdA, IdB,
      << "A", "A", "A" >>, << "/" >>, << " " >> }

RECURSIVE Concat(_)
Concat(ps) == IF ps = << >> THEN << >> ELSE Head(ps) \o Concat(Tail(ps))

PieceSeqs == UNION { [1..n -> Pieces] : n \in 1..MaxPieces }

UrlInputs == { Concat(ps) : ps \in PieceSeqs }

-----------------------------------------------------------------------------
(* JSON values as json.loads returns them.  ty is the Python type of the   *)
(* value ("absent": the key is missing, so q.get(key) is None).            *)

JAbsent == [ty |-> "absent", num |-> 0, str |-> "", items |-> << >>]
JNull == [ty |-> "NoneType", num |-> 0, str |-> "", items |-> << >>]
JStr(s) == [ty |-> "str", num |-> 0, str |-> s, items |-> << >>]
JInt(n) == [ty |-> "int", num |-> n, str |-> "", items |-> << >>]
JBool(b) == [ty |-> "bool", num |-> IF b THEN 1 ELSE 0, str |-> "", items |-> << >>]
JList(xs) == [ty |-> "list", num |-> 0, str |-> "", items |-> xs]

\* isinstance(v, int): bool is a subclass of int
isinstance_int(v) == v.ty \in {"int", "bool"}
isinstance_str(v) == v.ty = "str"
isinstance_list(v) == v.ty = "list"

\* an element of the "questions" array that is a JSON object
Dict(q, o, c, e) ==
    [ty |-> "dict", question |-> q, options |-> o, correct_index |-> c,
     explanation |-> e]

\* an element of the "questions" array that is not an object (here a string)
NonDict ==
    [ty |-> "str", question |-> JAbsent, options |-> JAbsent,
     correct_index |-> JAbsent, explanation |-> JAbsent]

\* raw model output: text that is not JSON, or the JSON object it denotes
\* (response_format json_object); qty is the type of its "questions" value
Malformed == [json |-> FALSE, qty |-> "absent", questions |-> << >>]
NoQuestionsKey == [json |-> TRUE, qty |-> "absent", questions |-> << >>]
NullQuestions == [json |-> TRUE, qty |-> "NoneType", questions |-> << >>]
Object(qs) == [json |-> TRUE, qty |-> "list", questions |-> qs]

\* outcome of a call: the value returned, or the exception raised
Returned(v) == [exc |-> "none", val |-> v]
Raised(e) == [exc |-> e, val |-> << >>]
Pending == [exc |-> "pending", val |-> << >>]

-----------------------------------------------------------------------------
(* quiz_generator.py: generate_questions_from_text, from the model's       *)
(* response on (lines 158-191).  The prompt does not enter the result.     *)

\* the condition of the if inside the for loop (lines 170-176)
is_valid_question(q) ==
    /\ isinstance_str(q.question)
    /\ isinstance_list(q.options)
    /\ Len(q.options.items) = OptionCount
    /\ isinstance_int(q.correct_index)
    /\ 0 <= q.correct_index.num
    /\ q.correct_index.num < OptionCount

\* the dict appended to cleaned (lines 177-184)
cleaned_entry(q) ==
    [question |-> q.question,
     options |-> q.options,
     correct_index |-> q.correct_index,
     explanation |-> IF q.explanation.ty = "absent" THEN JStr("") ELSE q.explanation]

RECURSIVE clean_questions(_)
clean_questions(qs) ==
    IF qs = << >> THEN << >>
    ELSE (IF is_valid_question(Head(qs)) THEN << cleaned_entry(Head(qs)) >> ELSE << >>)
         \o clean_questions(Tail(qs))

\* lines 186-191 without the truncation to target_questions
take_all(cleaned, target_questions) == cleaned

\* lines 186-191
take_first(cleaned, target_questions) ==
    IF Len(cleaned) >= target_questions
    THEN SubSeq(cleaned, 1, target_questions)
    ELSE cleaned

generate_questions_from_text(c, n) ==
    LET target_questions == Max(1, n) IN
    IF ~c.json THEN Returned(<< >>)                    \* json.JSONDecodeError
    ELSE IF c.qty = "NoneType" THEN Raised("TypeError")    \* for q in None
    ELSE IF \E i \in 1..Len(c.questions) : c.questions[i].ty # "dict"
         THEN Raised("AttributeError")                 \* q.get
    ELSE Returned(take_first(clean_questions(c.questions), target_questions))

-----------------------------------------------------------------------------
(* main.py: steps 5 and 6 of generate_quiz *)

\* lines 195-205: ordinal ids 0..n-1 in sequence order
build_all_questions(questions_raw) ==
    [i \in 1..Len(questions_raw) |->
        [id |-> i - 1,
         question |-> questions_raw[i].question,
         options |-> questions_raw[i].options,
         correct_index |-> questions_raw[i].correct_index,
         explanation |-> questions_raw[i].explanation]]

\* a projection that keeps the answer key
PublicQuestion_with_key(q) ==
    [id |-> q.id, question |-> q.question, options |-> q.options,
     correct_index |-> q.correct_index]

\* lines 212-216
PublicQuestion(q) ==
    [id |-> q.id, question |-> q.question, options |-> q.options]

\* lines 211-218
public_questions(all_questions) ==
    [i \in 1..Len(all_questions) |-> PublicQuestion(all_questions[i])]

-----------------------------------------------------------------------------
(* youtube_utils.py: platform calls.  The platform's answer is an input.   *)

\* playlistItems answers: the request fails, or the playlist has these items
PlaylistItems(n) == [i \in 1..n |-> IF i % 2 = 1 THEN IdA ELSE IdB]
ListingResponses ==
    { [ok |-> FALSE, items |-> << >>] }
    \cup { [ok |-> TRUE, items |-> PlaylistItems(n)] : n \in 0..MaxPlaylistItems }

\* transcript answers: an exception of any kind, or the joined segment text
TranscriptResponses ==
    { [ok |-> FALSE, text |-> ""], [ok |-> TRUE, text |-> ""],
      [ok |-> TRUE, text |-> "T"] }

\* videos answers: the request fails, no item, or a snippet
MetadataResponses ==
    { [ok |-> FALSE, has_items |-> FALSE, title |-> "", description |-> ""],
      [ok |-> TRUE, has_items |-> FALSE, title |-> "", description |-> ""] }
    \cup { [ok |-> TRUE, has_items |-> TRUE, title |-> ti, description |-> de] :
             ti \in {"", "X"}, de \in {"", "D"} }

\* what the platform answers for one video: the videos call is made only
\* when the transcript call gives no text
VideoResponses ==
    { [tr |-> t, md |-> m] : t \in TranscriptResponses, m \in MetadataResponses }
    \ { v \in [tr : TranscriptResponses, md : MetadataResponses] :
           v.tr.text # "" /\ (v.md.ok \/ v.md.has_items) }

\* lines 27-62; no try/except around the request
get_playlist_video_ids(resp, max_videos, api_key) ==
    IF ~api_key THEN Raised("RuntimeError")
    ELSE IF ~resp.ok THEN Raised("HTTPError")
    ELSE Returned(SubSeq(resp.items, 1, Min(max_videos, Len(resp.items))))

\* lines 65-78: every exception is caught
get_video_transcript(resp) ==
    IF ~resp.ok THEN None
    ELSE IF resp.text = "" THEN None
    ELSE Some(resp.text)

\* lines 81-115: the key check is outside the try
get_video_title_description(resp, api_key) ==
    IF ~api_key THEN Raised("RuntimeError")
    ELSE IF ~resp.ok THEN Returned(None)
    ELSE IF ~resp.has_items THEN Returned(None)
    ELSE IF resp.title = "" /\ resp.description = "" THEN Returned(None)
    ELSE Returned(Some(<< resp.title, resp.description >>))

-----------------------------------------------------------------------------
(* main.py: request handlers.  A worker thread runs one handler at a time. *)
(* req[w] holds the handler's position and its locals; a local that the    *)
(* rest of the handler does not read is reset when the handler moves on.   *)

Workers == {"w1", "w2"}
QuizIds == 1..MaxQuizzes

NoBody ==
    [quizId |-> 0, questions |-> << >>, score |-> 0, total |-> 0,
     percentage |-> [num |-> 0, den |-> 1], results |-> << >>]

Idle ==
    [pc |-> "idle", op |-> "none", url |-> << >>, playlist_id |-> None,
     playlist_tried |-> FALSE, video_tried |-> FALSE,
     video_ids |-> << >>, questions_per_video |-> 0, total_questions |-> 0,
     failed_calls |-> {}, all_questions |-> << >>, quiz_id |-> 0,
     payload |-> [quizId |-> 0, answers |-> << >>],
     status |-> 0, exc |-> "none", detail |-> "", body |-> NoBody]

\* raise HTTPException(status_code, detail)
HTTPException(r, status_code, detail) ==
    [r EXCEPT !.pc = "done", !.status = status_code, !.exc = "HTTPException",
              !.detail = detail]

\* an exception the handler does not catch: the framework answers 500
Unhandled(r, e) ==
    [r EXCEPT !.pc = "done", !.status = 500, !.exc = e, !.detail = "Internal Server Error"]

\* request payloads
ServerUrls ==
    { << " " >>,
      << "?" >> \o LitList \o << "P", "L", "1" >>,
      LitV \o IdA \o << "&" >> \o LitList \o << "P", "L", "1" >>,
      << "?" >> \o LitV \o IdA,
      LitYoutuBe \o IdB \o << "?" >> \o LitList,
      << "x", "/" >> }
QpvInputs == {0, 2, 5}
MaxVideosInputs == {0, 2, 9}

\* lines 109-134, playlist tried only after video resolution fails
resolve_video_first(r, url, qpv, mv, listing, api_key) ==
    LET questions_per_video == Max(1, Min(qpv, 3))
        max_videos == Max(1, Min(mv, 5))
        raw_url == strip(url)
        video_id == extract_video_id(raw_url)
        playlist_id == extract_playlist_id(raw_url)
        r0 == [r EXCEPT !.op = "generate_quiz", !.url = url,
                        !.questions_per_video = questions_per_video]
    IN  IF raw_url = << >> THEN HTTPException(r0, 400, "no_url")
        ELSE IF video_id.some
        THEN [r0 EXCEPT !.video_tried = TRUE, !.pc = "collect",
                        !.video_ids = << video_id.val >>]
        ELSE LET r1 == [r0 EXCEPT !.playlist_id = playlist_id, !.video_tried = TRUE,
                                  !.playlist_tried = playlist_id.some]
                 got == get_playlist_video_ids(listing, max_videos, api_key)
             IN  IF ~playlist_id.some THEN HTTPException(r1, 400, "invalid_url")
                 ELSE IF got.exc # "none" THEN Unhandled(r1, got.exc)
                 ELSE IF got.val = << >> THEN HTTPException(r1, 404, "no_videos")
                 ELSE [r1 EXCEPT !.pc = "collect", !.video_ids = got.val]

\* lines 109-134
resolve(r, url, qpv, mv, listing, api_key) ==
    LET questions_per_video == Max(1, Min(qpv, 3))
        max_videos == Max(1, Min(mv, 5))
        raw_url == strip(url)
        playlist_id == extract_playlist_id(raw_url)
        r0 == [r EXCEPT !.op = "generate_quiz", !.url = url,
                        !.questions_per_video = questions_per_video]
    IN  IF raw_url = << >> THEN HTTPException(r0, 400, "no_url")
        ELSE IF playlist_id.some
        THEN LET r1 == [r0 EXCEPT !.playlist_id = playlist_id, !.playlist_tried = TRUE]
                 got == get_playlist_video_ids(listing, max_videos, api_key)
             IN  IF got.exc # "none"
                 THEN Unhandled([r1 EXCEPT !.failed_calls =
                                    IF got.exc = "HTTPError" THEN {"playlistItems"} ELSE {}],
                                got.exc)
                 ELSE IF got.val = << >> THEN HTTPException(r1, 404, "no_videos")
                 ELSE [r1 EXCEPT !.pc = "collect", !.video_ids = got.val]
        ELSE LET video_id == extract_video_id(raw_url)
                 r1 == [r0 EXCEPT !.video_tried = TRUE]
             IN  IF ~video_id.some THEN HTTPException(r1, 400, "invalid_url")
                 ELSE [r1 EXCEPT !.pc = "collect", !.video_ids = << video_id.val >>]

generate_quiz_resolve(w) ==
    /\ req[w].pc = "idle"
    /\ \E url \in ServerUrls, qpv \in QpvInputs, mv \in MaxVideosInputs,
          listing \in ListingResponses :
          req' = [req EXCEPT ![w] = resolve(req[w], url, qpv, mv, listing, YOUTUBE_API_KEY)]
    /\ UNCHANGED << YOUTUBE_API_KEY, QUIZZES, issued, genVars, urlVars >>

\* lines 150-157: the text built from title and description, as its lines
metadata_text(td) ==
    (IF td[1] # "" THEN << "Video title: " \o td[1] >> ELSE << >>)
    \o (IF td[2] # "" THEN << "Video description:", td[2] >> ELSE << >>)

\* lines 140-162 for one video: the text appended to video_texts, if any
video_text(tr, md, api_key) ==
    LET transcript == get_video_transcript(tr)
        td == get_video_title_description(md, api_key)
    IN  IF transcript.some THEN Returned(Some(<< transcript.val >>))
        ELSE IF td.exc # "none" THEN Raised(td.exc)
        ELSE IF ~td.val.some THEN Returned(None)
        ELSE IF metadata_text(td.val.val) = << >> THEN Returned(None)
        ELSE Returned(Some(metadata_text(td.val.val)))

RECURSIVE collect_texts(_, _, _, _)
collect_texts(n, tr, md, api_key) ==
    IF n = 0 THEN << >>
    ELSE collect_texts(n - 1, tr, md, api_key)
         \o (IF video_text(tr[n], md[n], api_key).val.some
             THEN << video_text(tr[n], md[n], api_key).val.val >>
             ELSE << >>)

\* lines 136-179
collect(r, tr, md, api_key) ==
    LET n == Len(r.video_ids)
        raising == { i \in 1..n : video_text(tr[i], md[i], api_key).exc # "none" }
        video_texts == collect_texts(n, tr, md, api_key)
        failed ==
            (IF \E i \in 1..n : ~tr[i].ok THEN {"transcript"} ELSE {})
            \cup (IF \E i \in 1..n : ~get_video_transcript(tr[i]).some /\ ~md[i].ok
                  THEN {"videos"} ELSE {})
        r0 == [r EXCEPT !.failed_calls = IF api_key THEN failed ELSE {}]
        total_questions == r.questions_per_video * Len(video_texts)
    IN  IF raising # {}
        THEN Unhandled(r0, video_text(tr[CHOOSE i \in raising : \A j \in raising : i <= j],
                                      md[CHOOSE i \in raising : \A j \in raising : i <= j],
                                      api_key).exc)
        ELSE IF video_texts = << >> THEN HTTPException(r0, 500, "no_text")
        ELSE [r0 EXCEPT !.pc = "generate", !.video_ids = << >>, !.url = << >>,
                        !.playlist_id = None, !.playlist_tried = FALSE,
                        !.video_tried = FALSE,
                        !.questions_per_video = 0,
                        !.total_questions = Max(1, Min(total_questions, QuestionCap))]

generate_quiz_collect(w) ==
    /\ req[w].pc = "collect"
    /\ \E vr \in [1..Len(req[w].video_ids) -> VideoResponses] :
          req' = [req EXCEPT ![w] =
                     collect(req[w], [i \in DOMAIN vr |-> vr[i].tr],
                             [i \in DOMAIN vr |-> vr[i].md], YOUTUBE_API_KEY)]
    /\ UNCHANGED << YOUTUBE_API_KEY, QUIZZES, issued, genVars, urlVars >>

\* model outputs a generate request may receive
Opts4 == JList(<< "a", "b", "c", "d" >>)
Opts3 == JList(<< "a", "b", "c" >>)
QA0 == Dict(JStr("Qa"), Opts4, JInt(0), JStr("Ea"))
QB2 == Dict(JStr("Qb"), Opts4, JInt(2), JAbsent)
QBad == Dict(JStr("Qc"), Opts4, JInt(4), JStr("Ec"))

ServerContents ==
    { Malformed, Object(<< QBad >>), Object(<< QA0, NonDict >>),
      Object(<< QA0, QB2 >>), Object(<< QBad, QB2, QA0 >>), Object(<< QB2 >>) }

\* lines 181-205
generate(r, c) ==
    LET questions_raw == generate_questions_from_text(c, r.total_questions)
        r0 == [r EXCEPT !.failed_calls = {}, !.total_questions = 0]
    IN
    IF questions_raw.exc # "none" THEN Unhandled(r0, questions_raw.exc)
    ELSE IF questions_raw.val = << >> THEN HTTPException(r0, 500, "no_questions")
    ELSE [r0 EXCEPT !.pc = "uuid",
                    !.all_questions = build_all_questions(questions_raw.val)]

generate_quiz_generate(w) ==
    /\ req[w].pc = "generate"
    /\ \E c \in ServerContents : req' = [req EXCEPT ![w] = generate(req[w], c)]
    /\ UNCHANGED << YOUTUBE_API_KEY, QUIZZES, issued, genVars, urlVars >>

\* an id derived from the size of the store
uuid4_from_len(ids, store) == { Cardinality(DOMAIN store) + 1 } \cap QuizIds

\* uuid4(): a random id, taken never to repeat
uuid4(ids, store) == QuizIds \ ids

\* line 208
generate_quiz_uuid(w) ==
    /\ req[w].pc = "uuid"
    /\ \E quiz_id \in uuid4(issued, QUIZZES) :
          /\ req' = [req EXCEPT ![w].pc = "store", ![w].quiz_id = quiz_id]
          /\ issued' = issued \cup {quiz_id}
    /\ UNCHANGED << YOUTUBE_API_KEY, QUIZZES, genVars, urlVars >>

\* a store that keeps only the newest quiz
dict_replace(d, k, v) == [x \in {k} |-> v]

\* d[k] = v
dict_set(d, k, v) == [x \in DOMAIN d \cup {k} |-> IF x = k THEN v ELSE d[x]]

\* line 209
generate_quiz_store(w) ==
    /\ req[w].pc = "store"
    /\ QUIZZES' = dict_set(QUIZZES, req[w].quiz_id, req[w].all_questions)
    /\ req' = [req EXCEPT ![w].pc = "return"]
    /\ UNCHANGED << YOUTUBE_API_KEY, issued, genVars, urlVars >>

\* lines 211-220
generate_quiz_return(w) ==
    /\ req[w].pc = "return"
    /\ req' = [req EXCEPT ![w].pc = "done", ![w].status = 200,
                          ![w].body = [NoBody EXCEPT
                              !.quizId = req[w].quiz_id,
                              !.questions = public_questions(req[w].all_questions)]]
    /\ UNCHANGED << YOUTUBE_API_KEY, QUIZZES, issued, genVars, urlVars >>

-----------------------------------------------------------------------------
(* main.py: submit_quiz *)

Answers == [questionId : {0, 1, 99}, selectedIndex : {0, 2, 7}]
AnswerLists == UNION { [1..n -> Answers] : n \in 0..MaxAnswers }

\* ans.selectedIndex == q["correct_index"] (True == 1 in Python)
py_eq_int(n, v) == isinstance_int(v) /\ v.num = n

\* line 232: {q["id"]: q for q in quiz_questions}, a later q replacing an earlier
question_map_of(quiz_questions) ==
    [id \in { quiz_questions[i].id : i \in 1..Len(quiz_questions) } |->
        quiz_questions[CHOOSE i \in 1..Len(quiz_questions) :
            /\ quiz_questions[i].id = id
            /\ \A j \in 1..Len(quiz_questions) :
                  quiz_questions[j].id = id => j <= i]]

\* lines 243-254
QuestionResult(q, ans) ==
    [questionId |-> q.id,
     correctIndex |-> q.correct_index,
     selectedIndex |-> ans.selectedIndex,
     isCorrect |-> py_eq_int(ans.selectedIndex, q.correct_index),
     explanation |-> q.explanation]

\* one row per question that was answered, in the quiz's question order
RECURSIVE results_in_quiz_order(_, _)
results_in_quiz_order(question_map, answers) ==
    LET ids == DOMAIN question_map IN
    IF ids = {} THEN << >>
    ELSE LET lo == CHOOSE i \in ids : \A j \in ids : i <= j
             hits == SelectSeq(answers, LAMBDA a : a.questionId = lo)
         IN  [k \in 1..Len(hits) |-> QuestionResult(question_map[lo], hits[k])]
             \o results_in_quiz_order([i \in ids \ {lo} |-> question_map[i]], answers)

\* lines 237-255: the rows appended to results
RECURSIVE score_answers(_, _)
score_answers(question_map, answers) ==
    IF answers = << >> THEN << >>
    ELSE (IF Head(answers).questionId \in DOMAIN question_map
          THEN << QuestionResult(question_map[Head(answers).questionId], Head(answers)) >>
          ELSE << >>)
         \o score_answers(question_map, Tail(answers))

\* total taken from the submitted answers
total_of_answers(question_map, answers) == Len(answers)

\* line 257
total_of(question_map, answers) == Cardinality(DOMAIN question_map)

\* lines 227-265
submit(r, quizId, answers, store) ==
    LET r0 == [r EXCEPT !.op = "submit_quiz",
                        !.payload = [quizId |-> quizId, answers |-> answers]]
    IN
    IF quizId \notin DOMAIN store THEN HTTPException(r0, 404, "quiz_not_found")
    ELSE LET question_map == question_map_of(store[quizId])
             results == score_answers(question_map, answers)
             correct_count == Cardinality({ i \in 1..Len(results) : results[i].isCorrect })
             total == total_of(question_map, answers)
         IN  [r0 EXCEPT !.pc = "done", !.status = 200,
                        !.body = [NoBody EXCEPT
                            !.score = correct_count,
                            !.total = total,
                            !.percentage = IF total # 0
                                           THEN [num |-> correct_count * 100, den |-> total]
                                           ELSE [num |-> 0, den |-> 1],
                            !.results = results]]

submit_quiz(w) ==
    /\ req[w].pc = "idle"
    /\ \E quizId \in 0..MaxQuizzes, answers \in AnswerLists :
          req' = [req EXCEPT ![w] = submit(req[w], quizId, answers, QUIZZES)]
    /\ UNCHANGED << YOUTUBE_API_KEY, QUIZZES, issued, genVars, urlVars >>

\* the handler has returned or raised: the worker takes the next request
finish(w) ==
    /\ req[w].pc = "done"
    /\ req' = [req EXCEPT ![w] = Idle]
    /\ UNCHANGED << YOUTUBE_API_KEY, QUIZZES, issued, genVars, urlVars >>

-----------------------------------------------------------------------------
(* The server, one worker thread: requests are served one after another.   *)

Serial == {"w1"}

Init ==
    /\ YOUTUBE_API_KEY \in BOOLEAN
    /\ QUIZZES = << >>
    /\ issued = {}
    /\ req = [w \in Workers |-> Idle]
    /\ content = Malformed
    /\ content2 = Malformed
    /\ num_questions = 0
    /\ gen_out = Pending
    /\ pub_out = Pending
    /\ pub_out2 = Pending
    /\ url_in = << >>
    /\ url_out = Pending

Next ==
    \/ \E w \in Serial : generate_quiz_resolve(w)
    \/ \E w \in Serial : generate_quiz_collect(w)
    \/ \E w \in Serial : generate_quiz_generate(w)
    \/ \E w \in Serial : generate_quiz_uuid(w)
    \/ \E w \in Serial : generate_quiz_store(w)
    \/ \E w \in Serial : generate_quiz_return(w)
    \/ \E w \in Serial : submit_quiz(w)
    \/ \E w \in Serial : finish(w)

Spec == Init /\ [][Next]_vars

(* The server, two worker threads running generate requests concurrently,  *)
(* one request each.                                                       *)

InitConc == Init /\ YOUTUBE_API_KEY

NextConc ==
    \/ \E w \in Workers : generate_quiz_resolve(w)
    \/ \E w \in Workers : generate_quiz_collect(w)
    \/ \E w \in Workers : generate_quiz_generate(w)
    \/ \E w \in Workers : generate_quiz_uuid(w)
    \/ \E w \in Workers : generate_quiz_store(w)
    \/ \E w \in Workers : generate_quiz_return(w)

SpecConc == InitConc /\ [][NextConc]_vars

-----------------------------------------------------------------------------
(* generate_questions_from_text on its own: every model output of the      *)
(* bounded shape, every num_questions.                                     *)

Opts5 == JList(<< "a", "b", "c", "d", "e" >>)

GenElems ==
    { Dict(JStr("Qa"), Opts4, JInt(0), JStr("Ea")),
      Dict(JStr("Qa"), Opts4, JInt(1), JStr("Eb")),
      Dict(JStr("Qb"), Opts4, JInt(3), JAbsent),
      Dict(JStr("Qc"), Opts4, JBool(TRUE), JNull),
      Dict(JStr("Qd"), Opts4, JInt(4), JStr("Ed")),
      Dict(JStr("Qe"), Opts4, JInt(-1), JStr("Ee")),
      Dict(JStr("Qf"), Opts3, JInt(0), JStr("Ef")),
      Dict(JStr("Qg"), Opts5, JInt(0), JStr("Eg")),
      Dict(JStr("Qh"), JAbsent, JInt(0), JStr("Eh")),
      Dict(JAbsent, Opts4, JInt(0), JStr("Ei")),
      Dict(JInt(7), Opts4, JInt(0), JStr("Ej")),
      Dict(JStr("Qk"), Opts4, JStr("1"), JStr("Ek")),
      Dict(JStr("Ql"), Opts4, JAbsent, JStr("El")),
      NonDict }

ElemSeqs(S) == UNION { [1..n -> S] : n \in 0..MaxItems }

GenContents ==
    { Malformed, NoQuestionsKey, NullQuestions }
    \cup { Object(qs) : qs \in ElemSeqs(GenElems) }

InitGen ==
    /\ YOUTUBE_API_KEY = TRUE
    /\ QUIZZES = << >>
    /\ issued = {}
    /\ req = [w \in Workers |-> Idle]
    /\ content \in GenContents
    /\ content2 = Malformed
    /\ num_questions \in 0..MaxNumQuestions
    /\ gen_out = Pending
    /\ pub_out = Pending
    /\ pub_out2 = Pending
    /\ url_in = << >>
    /\ url_out = Pending

CallGenerator ==
    /\ gen_out = Pending
    /\ gen_out' = generate_questions_from_text(content, num_questions)
    /\ UNCHANGED << serverVars, content, content2, num_questions, pub_out, pub_out2,
                    urlVars >>

NextGen == CallGenerator

SpecGen == InitGen /\ [][NextGen]_vars

-----------------------------------------------------------------------------
(* Two generation runs whose model outputs differ only in correct_index    *)
(* and explanation, each taken through steps 4 to 6 of generate_quiz.      *)

PairKeys ==
    { [correct_index |-> JInt(0), explanation |-> JStr("E0")],
      [correct_index |-> JInt(3), explanation |-> JAbsent],
      [correct_index |-> JInt(5), explanation |-> JStr("E5")] }

PairElems ==
    { Dict(JStr(q), Opts4, k.correct_index, k.explanation) :
        q \in {"Qa", "Qb"}, k \in PairKeys }

PairContents ==
    { Object(qs) : qs \in UNION { [1..n -> PairElems] : n \in 0..MaxPairItems } }

\* the two outputs have the same shape and differ at most in the answer key
SameExceptKey(c1, c2) ==
    /\ Len(c1.questions) = Len(c2.questions)
    /\ \A i \in 1..Len(c1.questions) :
          /\ c1.questions[i].question = c2.questions[i].question
          /\ c1.questions[i].options = c2.questions[i].options

\* steps 4 to 6 of generate_quiz: the questions of the response
public_run(c, n) ==
    LET r == generate([Idle EXCEPT !.pc = "generate", !.total_questions = n], c) IN
    IF r.pc = "uuid" THEN Returned(public_questions(r.all_questions))
    ELSE Raised(r.exc)

InitPair ==
    /\ YOUTUBE_API_KEY = TRUE
    /\ QUIZZES = << >>
    /\ issued = {}
    /\ req = [w \in Workers |-> Idle]
    /\ content \in PairContents
    /\ content2 \in { c \in PairContents : SameExceptKey(content, c) }
    /\ num_questions \in 1..MaxNumQuestions
    /\ gen_out = Pending
    /\ pub_out = Pending
    /\ pub_out2 = Pending
    /\ url_in = << >>
    /\ url_out = Pending

RunFirst ==
    /\ pub_out = Pending
    /\ pub_out' = public_run(content, num_questions)
    /\ UNCHANGED << serverVars, content, content2, num_questions, gen_out, pub_out2,
                    urlVars >>

RunSecond ==
    /\ pub_out2 = Pending
    /\ pub_out2' = public_run(content2, num_questions)
    /\ UNCHANGED << serverVars, content, content2, num_questions, gen_out, pub_out,
                    urlVars >>

NextPair == RunFirst \/ RunSecond

SpecPair == InitPair /\ [][NextPair]_vars

-----------------------------------------------------------------------------
(* extract_video_id on its own *)

InitUrl ==
    /\ YOUTUBE_API_KEY = TRUE
    /\ QUIZZES = << >>
    /\ issued = {}
    /\ req = [w \in Workers |-> Idle]
    /\ content = Malformed
    /\ content2 = Malformed
    /\ num_questions = 0
    /\ gen_out = Pending
    /\ pub_out = Pending
    /\ pub_out2 = Pending
    /\ url_in \in UrlInputs
    /\ url_out = Pending

CallExtractVideoId ==
    /\ url_out = Pending
    /\ url_out' = Returned(extract_video_id(url_in))
    /\ UNCHANGED << serverVars, genVars, url_in >>

NextUrl == CallExtractVideoId

SpecUrl == InitUrl /\ [][NextUrl]_vars

-----------------------------------------------------------------------------
(* Properties *)

\* the j-th smallest element of a finite set of integers
Nth(S, j) == CHOOSE i \in S : Cardinality({ x \in S : x < i }) = j - 1

BothRunsReturned ==
    /\ pub_out # Pending /\ pub_out.exc = "none"
    /\ pub_out2 # Pending /\ pub_out2.exc = "none"

\* the two outputs drop the same elements in validation
SameValidity(c1, c2) ==
    \A i \in 1..Len(c1.questions) :
        is_valid_question(c1.questions[i]) <=> is_valid_question(c2.questions[i])

\* C1 as stated: two successful generation runs whose model outputs differ
\* only in correct_index and explanation answer with identical public
\* question lists.
C1_AnyKeyChangeInvisible ==
    BothRunsReturned => pub_out.val = pub_out2.val

\* C1, amended: every question of a successful generate response has exactly
\* the fields id, question and options, and two successful runs whose model
\* outputs differ only in correct_index and explanation, each element passing
\* validation in one run exactly when it does in the other, answer with
\* identical public question lists.
C1_ValidKeyChangeInvisible ==
    /\ (pub_out # Pending /\ pub_out.exc = "none") =>
          \A i \in 1..Len(pub_out.val) :
              DOMAIN pub_out.val[i] = {"id", "question", "options"}
    /\ (BothRunsReturned /\ SameValidity(content, content2)) =>
          pub_out.val = pub_out2.val

C1_Witness ==
    /\ BothRunsReturned
    /\ SameValidity(content, content2)
    /\ Len(pub_out.val) = 2
    /\ \E i \in 1..Len(content.questions) :
          /\ is_valid_question(content.questions[i])
          /\ content.questions[i].correct_index # content2.questions[i].correct_index
          /\ content.questions[i].explanation # content2.questions[i].explanation

\* what the claims call an element that passes validation
PassesValidation(q) ==
    /\ q.question.ty = "str"
    /\ q.options.ty = "list" /\ Len(q.options.items) = 4
    /\ q.correct_index.ty \in {"int", "bool"}
    /\ q.correct_index.num \in 0..3

ValidPositions(c) == { i \in 1..Len(c.questions) : PassesValidation(c.questions[i]) }

\* val is the first min(n, k) of the k valid elements of c, in c's order
IsFirstValid(val, c, n) ==
    /\ Len(val) = Min(n, Cardinality(ValidPositions(c)))
    /\ \A j \in 1..Len(val) :
          LET q == c.questions[Nth(ValidPositions(c), j)] IN
          /\ val[j].question = q.question
          /\ val[j].options = q.options
          /\ val[j].correct_index = q.correct_index

ListOfObjects(c) ==
    /\ c.json /\ c.qty = "list"
    /\ \A i \in 1..Len(c.questions) : c.questions[i].ty = "dict"

\* C2: for a model output that parses to an object with a list of question
\* objects and a target count >= 1, the generator returns exactly the first
\* min(target, k) of the k elements that pass validation, in the model's
\* order; so never more than target, each with 4 options and an index in 0..3.
C2_FirstValidInOrder ==
    (gen_out # Pending /\ ListOfObjects(content) /\ num_questions >= 1) =>
        /\ gen_out.exc = "none"
        /\ IsFirstValid(gen_out.val, content, num_questions)
        /\ Len(gen_out.val) <= num_questions
        /\ \A j \in 1..Len(gen_out.val) :
              /\ Len(gen_out.val[j].options.items) = 4
              /\ gen_out.val[j].correct_index.num \in 0..3

C2_Witness ==
    /\ gen_out # Pending
    /\ ListOfObjects(content)
    /\ num_questions = 2
    /\ Len(content.questions) = 3
    /\ ValidPositions(content) = {2, 3}
    /\ Len(gen_out.val) = 2
    /\ gen_out.val[1].question # gen_out.val[2].question

\* C3: whatever text the model returns, the generator raises nothing: text
\* that is not JSON gives the empty sequence, and an invalid element of the
\* questions array (not an object included) is dropped without affecting
\* the others.
C3_NeverRaises ==
    (gen_out # Pending /\ (~content.json \/ content.qty = "list")) =>
        /\ gen_out.exc = "none"
        /\ ~content.json => gen_out.val = << >>
        /\ content.json => IsFirstValid(gen_out.val, content, Max(1, num_questions))

-----------------------------------------------------------------------------
(* Properties of submit_quiz, the store and URL resolution in the server *)

SubmitAnswered(w) ==
    req[w].pc = "done" /\ req[w].op = "submit_quiz" /\ req[w].status = 200

\* the stored question with this id
StoredQuestion(quiz, id) == quiz[CHOOSE i \in 1..Len(quiz) : quiz[i].id = id]
StoredIds(quiz) == { quiz[i].id : i \in 1..Len(quiz) }

\* positions of the submitted answers whose questionId is in the quiz
Matched(quiz, answers) ==
    { i \in 1..Len(answers) : answers[i].questionId \in StoredIds(quiz) }

\* C4: total is the number of questions of the stored quiz, whatever was
\* submitted; score is the number of submitted answers whose questionId is in
\* the quiz and whose selectedIndex equals that question's correct_index;
\* unmatched answers count for neither, an out-of-range selectedIndex is
\* counted as incorrect.
C4_ScoreAndTotal ==
    \A w \in Workers : SubmitAnswered(w) =>
        LET quiz == QUIZZES[req[w].payload.quizId]
            answers == req[w].payload.answers
        IN  /\ req[w].body.total = Len(quiz)
            /\ req[w].body.score =
                  Cardinality({ i \in Matched(quiz, answers) :
                      answers[i].selectedIndex =
                          StoredQuestion(quiz, answers[i].questionId).correct_index.num })

C4_Witness ==
    \E w \in Workers :
        /\ SubmitAnswered(w)
        /\ req[w].body.total = 2
        /\ req[w].body.score = 1
        /\ Len(req[w].payload.answers) = 2
        /\ \E i \in 1..2 : req[w].payload.answers[i].questionId = 99

\* C5: a stored quiz is never changed, replaced or removed by any later
\* step, the store step leaves exactly the request's sequence under its
\* quizId, and submit_quiz does not modify the store.
C5_WriteOnce ==
    [][ /\ \A id \in DOMAIN QUIZZES :
              id \in DOMAIN QUIZZES' /\ QUIZZES'[id] = QUIZZES[id]
        /\ \A w \in Workers :
              (req[w].pc = "store" /\ req'[w].pc = "return") =>
                  /\ req[w].quiz_id \in DOMAIN QUIZZES'
                  /\ QUIZZES'[req[w].quiz_id] = req[w].all_questions
        /\ (\E w \in Workers : req'[w].op = "submit_quiz") => QUIZZES' = QUIZZES
      ]_vars

C5_Witness ==
    /\ Cardinality(DOMAIN QUIZZES) = 2
    /\ QUIZZES[1] # QUIZZES[2]
    /\ \E w \in Workers : SubmitAnswered(w) /\ req[w].body.score = 2

HasQuizId(w) ==
    req[w].op = "generate_quiz" /\ req[w].pc \in {"store", "return", "done"}
    /\ req[w].quiz_id # 0

\* C6: two generate requests that reach the store step get distinct quizIds
\* under every interleaving, and once a request has stored its quiz, its
\* quizId maps to its own question sequence.
C6_DistinctQuizIds ==
    /\ \A w1, w2 \in Workers :
          (w1 # w2 /\ HasQuizId(w1) /\ HasQuizId(w2)) =>
              req[w1].quiz_id # req[w2].quiz_id
    /\ \A w \in Workers :
          (HasQuizId(w) /\ req[w].pc \in {"return", "done"}) =>
              /\ req[w].quiz_id \in DOMAIN QUIZZES
              /\ QUIZZES[req[w].quiz_id] = req[w].all_questions

C6_Witness ==
    /\ \A w \in Workers : HasQuizId(w) /\ req[w].pc = "done" /\ req[w].status = 200
    /\ req["w1"].all_questions # req["w2"].all_questions

\* C7: a failed platform call (playlist listing, transcript, metadata) never
\* leaves the handler as an unhandled exception; the request fails only when
\* no video gave usable text.
C7_PlatformFailureAbsorbed ==
    \A w \in Workers :
        (req[w].pc = "done" /\ req[w].failed_calls # {}) =>
            /\ req[w].exc = "HTTPException"
            /\ req[w].detail = "no_text"

\* C8: the results hold one row per submitted answer whose questionId is in
\* the stored quiz, in submission order; so no more rows than answers, and a
\* submit for an unknown quizId is answered not-found with no rows.
C8_RowsInSubmissionOrder ==
    \A w \in Workers :
        (req[w].pc = "done" /\ req[w].op = "submit_quiz") =>
            IF req[w].payload.quizId \in DOMAIN QUIZZES
            THEN LET quiz == QUIZZES[req[w].payload.quizId]
                     answers == req[w].payload.answers
                     rows == req[w].body.results
                 IN  /\ req[w].status = 200
                     /\ Len(rows) = Cardinality(Matched(quiz, answers))
                     /\ Len(rows) <= Len(answers)
                     /\ \A j \in 1..Len(rows) :
                           LET a == answers[Nth(Matched(quiz, answers), j)] IN
                           /\ rows[j].questionId = a.questionId
                           /\ rows[j].selectedIndex = a.selectedIndex
            ELSE /\ req[w].status = 404
                 /\ req[w].body.results = << >>

C8_Witness ==
    \E w \in Workers :
        /\ SubmitAnswered(w)
        /\ Len(req[w].body.results) = 2
        /\ req[w].body.results[1].questionId = 1
        /\ req[w].body.results[2].questionId = 0

-----------------------------------------------------------------------------
(* Properties of URL resolution *)

\* the URL holds a playlist identifier: [?&]list= followed by an id character
HasPlaylistId(url) == \E i \in 1..Len(url) : ListPatternAt(url, i)

\* the leftmost match of lit followed by an 11-character id, if any
FirstMatch(lit, s) ==
    IF \E i \in 1..Len(s) : IdPatternAt(lit, s, i)
    THEN LET i == CHOOSE i \in 1..Len(s) :
                    /\ IdPatternAt(lit, s, i)
                    /\ \A j \in 1..(i - 1) : ~IdPatternAt(lit, s, j)
         IN  Some(SubSeq(s, i + Len(lit), i + Len(lit) + IdLen - 1))
    ELSE None

IsBareId(s) == Len(s) = IdLen /\ \A k \in 1..Len(s) : s[k] \in IdChars

\* the id of the first pattern of lits (in that order) that matches s
RECURSIVE ByPriority(_, _)
ByPriority(lits, s) ==
    IF lits = << >> THEN None
    ELSE IF FirstMatch(Head(lits), s).some THEN FirstMatch(Head(lits), s)
    ELSE ByPriority(Tail(lits), s)

Resolved(w) ==
    /\ req[w].op = "generate_quiz"
    /\ \/ req[w].pc = "collect"
       \/ req[w].pc = "done" /\ req[w].detail \in {"no_url", "invalid_url", "no_videos"}
       \/ req[w].pc = "done" /\ req[w].playlist_tried

\* C9: a request whose URL holds a playlist identifier is handled as a
\* playlist and video resolution is not attempted for it, whether or not the
\* URL also holds a video identifier and even when the playlist has no
\* videos; video resolution is attempted only without a playlist identifier,
\* never both, and a URL that resolves to neither is a client error (400).
C9_PlaylistPrecedence ==
    \A w \in Workers : Resolved(w) =>
        LET raw_url == strip(req[w].url) IN
        /\ ~(req[w].playlist_tried /\ req[w].video_tried)
        /\ HasPlaylistId(raw_url) => (req[w].playlist_tried /\ ~req[w].video_tried)
        /\ req[w].video_tried => ~HasPlaylistId(raw_url)
        /\ (raw_url # << >> /\ ~HasPlaylistId(raw_url)) => req[w].video_tried
        /\ (~HasPlaylistId(raw_url)
            /\ ~IsBareId(raw_url)
            /\ ~ByPriority(<< LitV, LitYoutuBe, LitShorts >>, raw_url).some) =>
              (req[w].pc = "done" /\ req[w].status = 400)
        /\ (req[w].pc = "done" /\ req[w].detail = "no_videos") =>
              (req[w].status = 404 /\ ~req[w].video_tried)

C9_Witness ==
    \E w \in Workers :
        /\ Resolved(w)
        /\ req[w].pc = "collect"
        /\ HasPlaylistId(strip(req[w].url))
        /\ FirstMatch(LitV, strip(req[w].url)).some
        /\ req[w].playlist_tried
        /\ ~req[w].video_tried

UrlDone == url_out # Pending

\* C10 as stated: the patterns are tried in the order bare id, v=, /shorts/,
\* short domain, and the id of the first that matches is returned.
C10_ShortsBeforeShortDomain ==
    UrlDone =>
        LET s == strip(url_in) IN
        url_out.val = IF IsBareId(s) THEN Some(s)
                      ELSE ByPriority(<< LitV, LitShorts, LitYoutuBe >>, s)

\* C10, amended: the patterns are tried in the order bare 11-character id,
\* v=<id>, youtu.be/<id>, shorts/<id> (each an 11-character id found anywhere
\* in the stripped input); the id of the first pattern that matches is
\* returned, a bare id unchanged, and none when no pattern matches.
C10_ShortDomainBeforeShorts ==
    UrlDone =>
        LET s == strip(url_in) IN
        url_out.val = IF IsBareId(s) THEN Some(s)
                      ELSE ByPriority(<< LitV, LitYoutuBe, LitShorts >>, s)

C10_Witness ==
    /\ UrlDone
    /\ FirstMatch(LitShorts, strip(url_in)).some
    /\ FirstMatch(LitYoutuBe, strip(url_in)).some
    /\ ~FirstMatch(LitV, strip(url_in)).some
    /\ FirstMatch(LitShorts, strip(url_in)) # FirstMatch(LitYoutuBe, strip(url_in))
    /\ url_out.val = FirstMatch(LitYoutuBe, strip(url_in))

-----------------------------------------------------------------------------
(* Range of the submit response.  percentage is the exact fraction         *)
(* num / den of correct_count / total * 100.                               *)

\* C11: for every stored quiz and every submitted answer list, also one that
\* repeats a questionId, submit_quiz answers with 0 <= score <= total and
\* 0 <= percentage <= 100.
C11_ScoreWithinTotal ==
    \A w \in Workers : SubmitAnswered(w) =>
        /\ 0 <= req[w].body.score
        /\ req[w].body.score <= req[w].body.total
        /\ 0 <= req[w].body.percentage.num
        /\ req[w].body.percentage.num <= 100 * req[w].body.percentage.den

====
